---------------------------- MODULE Spec2Model ----------------------------
(***************************************************************************)
(* Model of sankey_diagram.py: the module-level data pipeline (read_csv,   *)
(* to_datetime, dropna, the three duration columns, fillna), the layout's  *)
(* summary statistics, the registered Dash callbacks, and the launch       *)
(* (Timer + run_server(debug=True)).                                       *)
(*                                                                         *)
(* Numbers.  A timestamp is the whole number of minutes since 1970-01-01   *)
(* (the format has minute resolution, so this is exact).  The duration     *)
(* columns are IEEE-754 binary64 values, modelled bit-exactly: a float is  *)
(* NaN, zero, or [s, e, m] with sign s, exponent e of the leading bit and  *)
(* m the 53 mantissa bits, most significant first (m[1] = 1);              *)
(* its value is (-1)^s * m * 2^(e-52).                                     *)
(***************************************************************************)
EXTENDS Integers, Sequences, FiniteSets, TLC

\* ------------------------------------------------------------------------
\* Bit strings (most significant bit first)
\* ------------------------------------------------------------------------
Zeros(n) == [i \in 1..n |-> 0]

RECURSIVE NatToBits(_)
NatToBits(n) == IF n = 0 THEN <<>> ELSE Append(NatToBits(n \div 2), n % 2)

\* b without its leading zeros.
StripZeros(b) ==
    IF \A i \in 1..Len(b) : b[i] = 0 THEN <<>>
    ELSE LET f == CHOOSE i \in 1..Len(b) :
                      b[i] = 1 /\ \A j \in 1..(i - 1) : b[j] = 0
         IN  SubSeq(b, f, Len(b))

AnyOne(b) == \E i \in 1..Len(b) : b[i] = 1

\* The number written by bits i..j of b.
RECURSIVE BitsToNatR(_, _, _, _)
BitsToNatR(b, i, j, acc) ==
    IF i > j THEN acc ELSE BitsToNatR(b, i + 1, j, 2 * acc + b[i])

BitsToNat(b, i, j) == BitsToNatR(b, i, j, 0)

\* The w-bit representation of n < 2^w.
NatToWidth(n, w) == LET b == NatToBits(n) IN Zeros(w - Len(b)) \o b

\* Arithmetic on bit strings works on digits of 16 bits, so that every
\* intermediate value stays below 2^31.  ChunkLo(hi) is the first bit of
\* the digit that ends at bit hi.
ChunkLo(hi) == IF hi - 15 < 1 THEN 1 ELSE hi - 15

\* b + 1, same length; the carry out of the top bit is returned apart.
RECURSIVE IncBitsR(_, _, _, _)
IncBitsR(b, hi, carry, acc) ==
    IF hi = 0 THEN [bits |-> acc, carry |-> carry]
    ELSE LET lo == ChunkLo(hi)
             w  == hi - lo + 1
             t  == BitsToNat(b, lo, hi) + carry
         IN  IncBitsR(b, lo - 1, t \div (2 ^ w), NatToWidth(t % (2 ^ w), w) \o acc)

IncBits(b) == IncBitsR(b, Len(b), 1, <<>>)

\* a + b for bit strings of equal length; the result is one bit longer.
RECURSIVE AddBitsR(_, _, _, _, _)
AddBitsR(a, b, hi, carry, acc) ==
    IF hi = 0 THEN <<carry>> \o acc
    ELSE LET lo == ChunkLo(hi)
             w  == hi - lo + 1
             t  == BitsToNat(a, lo, hi) + BitsToNat(b, lo, hi) + carry
         IN  AddBitsR(a, b, lo - 1, t \div (2 ^ w), NatToWidth(t % (2 ^ w), w) \o acc)

AddBits(a, b) == AddBitsR(a, b, Len(a), 0, <<>>)

\* a - b for bit strings of equal length with a >= b.
RECURSIVE SubBitsR(_, _, _, _, _)
SubBitsR(a, b, hi, borrow, acc) ==
    IF hi = 0 THEN acc
    ELSE LET lo == ChunkLo(hi)
             w  == hi - lo + 1
             t  == BitsToNat(a, lo, hi) - BitsToNat(b, lo, hi) - borrow
         IN  IF t < 0
             THEN SubBitsR(a, b, lo - 1, 1, NatToWidth(t + 2 ^ w, w) \o acc)
             ELSE SubBitsR(a, b, lo - 1, 0, NatToWidth(t, w) \o acc)

SubBits(a, b) == SubBitsR(a, b, Len(a), 0, <<>>)

\* a < b for bit strings of equal length.
LessBits(a, b) ==
    \E i \in 1..Len(a) :
        a[i] < b[i] /\ \A k \in 1..(i - 1) : a[k] = b[k]

\* Schoolbook division of the bit string b by the natural d, 0 < d < 2^15:
\* quotient bits (same length as b) and the remainder.
RECURSIVE LongDivR(_, _, _, _, _)
LongDivR(b, d, i, r, q) ==
    IF i > Len(b) THEN [q |-> q, r |-> r]
    ELSE LET j   == IF i + 15 > Len(b) THEN Len(b) ELSE i + 15
             w   == j - i + 1
             r2  == r * (2 ^ w) + BitsToNat(b, i, j)
         IN  LongDivR(b, d, j + 1, r2 % d, q \o NatToWidth(r2 \div d, w))

LongDiv(b, d) == LongDivR(b, d, 1, 0, <<>>)

\* ------------------------------------------------------------------------
\* binary64
\* ------------------------------------------------------------------------
MantBits == 53

NaN   == [cls |-> "nan"]
FZero == [cls |-> "zero"]
IsNaN(x) == x.cls = "nan"

\* Round to nearest, ties to even.  b is the exact magnitude as a bit
\* string with b[1] = 1 whose leading bit has exponent e; sticky says that
\* non-zero bits were dropped below b.
RoundBits(s, e, b, sticky) ==
    IF Len(b) <= MantBits
    THEN [cls |-> "num", s |-> s, e |-> e, m |-> b \o Zeros(MantBits - Len(b))]
    ELSE LET keep  == SubSeq(b, 1, MantBits)
             guard == b[MantBits + 1]
             rest  == sticky \/ AnyOne(SubSeq(b, MantBits + 2, Len(b)))
             up    == guard = 1 /\ (rest \/ keep[MantBits] = 1)
             inc   == IncBits(keep)
         IN  IF ~up THEN [cls |-> "num", s |-> s, e |-> e, m |-> keep]
             ELSE IF inc.carry = 1
                  THEN [cls |-> "num", s |-> s, e |-> e + 1,
                        m |-> <<1>> \o Zeros(MantBits - 1)]
                  ELSE [cls |-> "num", s |-> s, e |-> e, m |-> inc.bits]

\* int -> float64 (exact for the magnitudes of this model, < 2^53).
IntToF64(n) ==
    IF n = 0 THEN FZero
    ELSE LET a == IF n < 0 THEN -n ELSE n
             b == NatToBits(a)
         IN  RoundBits(IF n < 0 THEN 1 ELSE 0, Len(b) - 1, b, FALSE)

F64Neg(x) ==
    IF x.cls = "num" THEN [x EXCEPT !.s = 1 - x.s] ELSE x

\* x / d for a natural d > 0 (IEEE division by float(d): the exact
\* quotient, correctly rounded).  d = 0 gives 0/0 = NaN or x/0 (not used).
F64DivNat(x, d) ==
    IF IsNaN(x) \/ d = 0 THEN NaN
    ELSE IF x.cls = "zero" THEN FZero
    ELSE LET k   == MantBits + Len(NatToBits(d)) + 2
             dv  == LongDiv(x.m \o Zeros(k), d)
             q   == StripZeros(dv.q)
         IN  RoundBits(x.s, (Len(q) - 1) + x.e - (MantBits - 1) - k, q, dv.r # 0)

\* x + y.
F64Add(x, y) ==
    IF IsNaN(x) \/ IsNaN(y) THEN NaN
    ELSE IF x.cls = "zero" THEN y
    ELSE IF y.cls = "zero" THEN x
    ELSE LET lo  == IF x.e < y.e THEN x.e ELSE y.e
             hi  == IF x.e < y.e THEN y.e ELSE x.e
             w   == MantBits + (hi - lo)
             \* both magnitudes in units of 2^(lo - 52), w bits wide
             ax  == Zeros(hi - x.e) \o x.m \o Zeros(x.e - lo)
             ay  == Zeros(hi - y.e) \o y.m \o Zeros(y.e - lo)
         IN  IF x.s = y.s
             THEN LET t == StripZeros(AddBits(ax, ay))
                  IN  RoundBits(x.s, (Len(t) - 1) + lo - (MantBits - 1), t, FALSE)
             ELSE IF ax = ay THEN FZero
             ELSE LET xBig == LessBits(ay, ax)
                      t == StripZeros(IF xBig THEN SubBits(ax, ay) ELSE SubBits(ay, ax))
                  IN  RoundBits(IF xBig THEN x.s ELSE y.s,
                                (Len(t) - 1) + lo - (MantBits - 1), t, FALSE)

F64Sub(x, y) == F64Add(x, F64Neg(y))

\* x == y as Python compares floats (NaN equals nothing).
F64Eq(x, y) == ~IsNaN(x) /\ ~IsNaN(y) /\ x = y

\* ------------------------------------------------------------------------
\* Cell values.  Every value carries its kind in cls: "str", "int", "ts"
\* (a Timestamp, in minutes since 1970-01-01 00:00), "nat", "nan", and the
\* float kinds above.  A timestamp cell of the file is its text, a sequence
\* of characters; the empty text is an empty cell.
\* ------------------------------------------------------------------------
Str(t)  == [cls |-> "str", str |-> t]
Int0(n) == [cls |-> "int", int |-> n]
Ts(n)   == [cls |-> "ts", min |-> n]
NaT     == [cls |-> "nat"]
IsNull(v) == v.cls \in {"nan", "nat"}

Digits == <<"0", "1", "2", "3", "4", "5", "6", "7", "8", "9">>
IsDigit(c) == \E i \in 1..10 : Digits[i] = c
DigitVal(c) == (CHOOSE i \in 1..10 : Digits[i] = c) - 1

\* The index just after the longest run of digits (of blanks) from i on.
DigitRunEnd(s, i) ==
    CHOOSE j \in i..(Len(s) + 1) :
        /\ \A k \in i..(j - 1) : IsDigit(s[k])
        /\ (j = Len(s) + 1 \/ ~IsDigit(s[j]))

SpaceRunEnd(s, i) ==
    CHOOSE j \in i..(Len(s) + 1) :
        /\ \A k \in i..(j - 1) : s[k] = " "
        /\ (j = Len(s) + 1 \/ s[j] # " ")

RECURSIVE NumVal(_, _, _, _)
NumVal(s, i, j, acc) ==
    IF i >= j THEN acc ELSE NumVal(s, i + 1, j, 10 * acc + DigitVal(s[i]))

IsLeap(y) == (y % 4 = 0 /\ y % 100 # 0) \/ y % 400 = 0

DaysInMonth(y, m) ==
    IF m = 2 THEN (IF IsLeap(y) THEN 29 ELSE 28)
    ELSE IF m \in {4, 6, 9, 11} THEN 30 ELSE 31

\* Days from 1970-01-01 to y-m-d in the proleptic Gregorian calendar.
DaysFromCivil(y, m, d) ==
    LET yy  == IF m <= 2 THEN y - 1 ELSE y
        era == yy \div 400
        yoe == yy - era * 400
        mp  == (m + 9) % 12
        doy == (153 * mp + 2) \div 5 + d - 1
        doe == yoe * 365 + yoe \div 4 - yoe \div 100 + doy
    IN  era * 146097 + doe - 719468

MinutesOf(y, m, d, hh, mi) == DaysFromCivil(y, m, d) * 1440 + hh * 60 + mi

\* pd.to_datetime(text, format="%m/%d/%Y %H:%M", errors='coerce') for one
\* value.  The whole text must match: month (1-2 digits, 1..12) "/" day
\* (1-2 digits, 1..31) "/" year (4 digits) blanks hour (1-2 digits, 0..23)
\* ":" minute (1-2 digits, 0..59); the date must exist, and the moment must
\* lie in the range of a nanosecond Timestamp (1677-09-21 00:12:43.145 ..
\* 2262-04-11 23:47:16.854).  Anything else, and a missing value, is NaT.
to_datetime(v) ==
    IF v.cls # "text" THEN NaT
    ELSE
    LET s   == v.text
        n   == Len(s)
        mE  == DigitRunEnd(s, 1)
        dE  == DigitRunEnd(s, mE + 1)
        yE  == DigitRunEnd(s, dE + 1)
        hS  == SpaceRunEnd(s, yE)
        hE  == DigitRunEnd(s, hS)
        miE == DigitRunEnd(s, hE + 1)
        shape ==
            /\ mE - 1 \in 1..2 /\ mE <= n /\ s[mE] = "/"
            /\ dE - (mE + 1) \in 1..2 /\ dE <= n /\ s[dE] = "/"
            /\ yE - (dE + 1) = 4
            /\ hS > yE
            /\ hE - hS \in 1..2 /\ hE <= n /\ s[hE] = ":"
            /\ miE - (hE + 1) \in 1..2 /\ miE = n + 1
        mo  == NumVal(s, 1, mE, 0)
        dd  == NumVal(s, mE + 1, dE, 0)
        yy  == NumVal(s, dE + 1, yE, 0)
        hh  == NumVal(s, hS, hE, 0)
        mi  == NumVal(s, hE + 1, miE, 0)
    IN  IF ~shape THEN NaT
        ELSE IF ~(mo \in 1..12 /\ dd \in 1..31 /\ hh \in 0..23 /\ mi \in 0..59)
        THEN NaT
        ELSE IF dd > DaysInMonth(yy, mo) THEN NaT
        ELSE IF yy < 1677 \/ yy > 2262 THEN NaT
        ELSE IF \/ MinutesOf(yy, mo, dd, hh, mi) < MinutesOf(1677, 9, 21, 0, 13)
                \/ MinutesOf(yy, mo, dd, hh, mi) > MinutesOf(2262, 4, 11, 23, 47)
        THEN NaT
        ELSE Ts(MinutesOf(yy, mo, dd, hh, mi))

\* ------------------------------------------------------------------------
\* The input file: rows of text cells under the header
\* Carrier, Routed Date Time, Stored Date Time, Delivered Date Time.
\* ------------------------------------------------------------------------
Jan01 == <<"0", "1", "/", "0", "1", "/", "2", "0", "2", "4", " ">>
T0800 == Jan01 \o <<"0", "8", ":", "0", "0">>
T0806 == Jan01 \o <<"0", "8", ":", "0", "6">>
T0815 == Jan01 \o <<"0", "8", ":", "1", "5">>
T0818 == Jan01 \o <<"0", "8", ":", "1", "8">>
T0945 == Jan01 \o <<"0", "9", ":", "4", "5">>
T1000 == Jan01 \o <<"1", "0", ":", "0", "0">>
T1400 == Jan01 \o <<"1", "4", ":", "0", "0">>
\* the same moment as T0800, written without padding
U0800 == <<"1", "/", "1", "/", "2", "0", "2", "4", " ", "8", ":", "0", "0">>
NotADate == <<"n", "o", "t", "-", "a", "-", "d", "a", "t", "e">>
BadMonth == <<"1", "3", "/", "4", "5", "/", "2", "0", "2", "4", " ", "0", "8", ":", "0", "0">>
Feb30    == <<"0", "2", "/", "3", "0", "/", "2", "0", "2", "4", " ", "0", "8", ":", "0", "0">>
Y3000    == <<"0", "1", "/", "0", "1", "/", "3", "0", "0", "0", " ", "0", "8", ":", "0", "0">>
Empty    == <<>>

CsvRow(c, r, s, d) == [Carrier |-> c, Routed |-> r, Stored |-> s, Delivered |-> d]

InputRows ==
    { CsvRow("UPS",   T0800,    T1000,    T1400),
      CsvRow("FedEx", T0800,    T0806,    T0818),
      CsvRow("UPS",   T1400,    Empty,    T0800),
      CsvRow("",      T0800,    NotADate, T1400),
      CsvRow("UPS",   NotADate, T1000,    T1400),
      CsvRow("FedEx", T0800,    T1000,    BadMonth),
      CsvRow("",      Feb30,    Empty,    T1400),
      CsvRow("FedEx", T1400,    T1000,    T0800),
      CsvRow("FedEx", U0800,    T0815,    T0945),
      CsvRow("UPS",   T0800,    T0806,    Empty),
      CsvRow("FedEx", T0806,    T0815,    T0818),
      CsvRow("",      T0815,    T0945,    T1400),
      CsvRow("UPS",   T0818,    T0806,    T0800),
      CsvRow("UPS",   T0800,    T1000,    Y3000) }

\* The largest number of data rows of an input file.
MaxRows == 2

Files == UNION { [1..n -> InputRows] : n \in 0..MaxRows }

\* ------------------------------------------------------------------------
\* The pipeline's steps as functions of the table.  A table is a sequence
\* of rows; idx is the row's index label, which dropna keeps.
\* ------------------------------------------------------------------------
date_columns == <<"RoutedDateTime", "StoredDateTime", "DeliveredDateTime">>

\* pd.read_csv: an empty cell is NaN, any other cell its text.
CsvText(t) == IF t = <<>> THEN NaN ELSE [cls |-> "text", text |-> t]

ReadCsv(f) ==
    [i \in 1..Len(f) |->
        [idx               |-> i - 1,
         Carrier           |-> IF f[i].Carrier = "" THEN NaN ELSE Str(f[i].Carrier),
         RoutedDateTime    |-> CsvText(f[i].Routed),
         StoredDateTime    |-> CsvText(f[i].Stored),
         DeliveredDateTime |-> CsvText(f[i].Delivered)]]

\* for col in date_columns: df[col] = pd.to_datetime(df[col], ...)
ConvertColumns(t) ==
    [i \in 1..Len(t) |->
        [c \in DOMAIN t[i] |->
            IF \E k \in 1..Len(date_columns) : date_columns[k] = c
            THEN to_datetime(t[i][c]) ELSE t[i][c]]]

\* df.dropna(subset=["Routed Date Time", "Delivered Date Time"])
HasCritical(row) == ~IsNull(row.RoutedDateTime) /\ ~IsNull(row.DeliveredDateTime)

\* dropna() without subset=: a row missing anything is dropped.
DropNaAnyColumn(t) ==
    SelectSeq(t, LAMBDA row : \A c \in DOMAIN row \ {"idx"} : ~IsNull(row[c]))

DropNa(t) == SelectSeq(t, HasCritical)

Column(t, c) == [i \in 1..Len(t) |-> t[i][c]]

\* (a - b).dt.total_seconds() / 3600 for one row: NaT in, NaN out.
Hours(a, b) ==
    IF IsNull(a) \/ IsNull(b) THEN NaN
    ELSE F64DivNat(IntToF64(60 * (a.min - b.min)), 3600)

\* The total clamped at zero.
ComputeStagesClamped(t) ==
    [i \in 1..Len(t) |->
        [idx                 |-> t[i].idx,
         Carrier             |-> t[i].Carrier,
         RoutedDateTime      |-> t[i].RoutedDateTime,
         StoredDateTime      |-> t[i].StoredDateTime,
         DeliveredDateTime   |-> t[i].DeliveredDateTime,
         RoutedToStored      |-> Hours(t[i].StoredDateTime, t[i].RoutedDateTime),
         StoredToDelivered   |-> Hours(t[i].DeliveredDateTime, t[i].StoredDateTime),
         TotalProcessingTime |->
             IF t[i].DeliveredDateTime.min < t[i].RoutedDateTime.min THEN FZero
             ELSE Hours(t[i].DeliveredDateTime, t[i].RoutedDateTime)]]

\* The second interval measured from the routed time.
ComputeStagesFromRouted(t) ==
    [i \in 1..Len(t) |->
        [idx                 |-> t[i].idx,
         Carrier             |-> t[i].Carrier,
         RoutedDateTime      |-> t[i].RoutedDateTime,
         StoredDateTime      |-> t[i].StoredDateTime,
         DeliveredDateTime   |-> t[i].DeliveredDateTime,
         RoutedToStored      |-> Hours(t[i].StoredDateTime, t[i].RoutedDateTime),
         StoredToDelivered   |->
             IF IsNull(t[i].StoredDateTime) THEN NaN
             ELSE Hours(t[i].DeliveredDateTime, t[i].RoutedDateTime),
         TotalProcessingTime |-> Hours(t[i].DeliveredDateTime, t[i].RoutedDateTime)]]

ComputeStages(t) ==
    [i \in 1..Len(t) |->
        [idx                 |-> t[i].idx,
         Carrier             |-> t[i].Carrier,
         RoutedDateTime      |-> t[i].RoutedDateTime,
         StoredDateTime      |-> t[i].StoredDateTime,
         DeliveredDateTime   |-> t[i].DeliveredDateTime,
         RoutedToStored      |-> Hours(t[i].StoredDateTime, t[i].RoutedDateTime),
         StoredToDelivered   |-> Hours(t[i].DeliveredDateTime, t[i].StoredDateTime),
         TotalProcessingTime |-> Hours(t[i].DeliveredDateTime, t[i].RoutedDateTime)]]

\* fillna(0) on one value: in a float column the 0 is 0.0.
FloatColumns == {"RoutedToStored", "StoredToDelivered", "TotalProcessingTime"}

FillValue(c, v) ==
    IF IsNull(v) THEN (IF c \in FloatColumns THEN FZero ELSE Int0(0)) ELSE v

\* fillna restricted to the timestamp and name columns.
FillNaObjectColumns(t) ==
    [i \in 1..Len(t) |-> [c \in DOMAIN t[i] |->
        IF c = "idx" \/ c \in FloatColumns THEN t[i][c] ELSE FillValue(c, t[i][c])]]

\* fillna restricted to the three duration columns.
FillNaFloatColumns(t) ==
    [i \in 1..Len(t) |-> [c \in DOMAIN t[i] |->
        IF c \in FloatColumns THEN FillValue(c, t[i][c]) ELSE t[i][c]]]

\* df.fillna(0, inplace=True): every column.
FillNa(t) ==
    [i \in 1..Len(t) |-> [c \in DOMAIN t[i] |->
        IF c = "idx" THEN t[i][c] ELSE FillValue(c, t[i][c])]]

\* Series.mean(): the sum, added up front to back, over the count; NaN for
\* an empty column.
RECURSIVE F64Sum(_, _, _)
F64Sum(col, i, acc) ==
    IF i > Len(col) THEN acc ELSE F64Sum(col, i + 1, F64Add(acc, col[i]))

Mean(col) == F64DivNat(F64Sum(col, 1, FZero), Len(col))

\* Series.value_counts(): the distinct non-null values with their counts,
\* most frequent first (ties in order of first appearance).
Count(col, v) == Cardinality({i \in 1..Len(col) : col[i] = v})

FirstAt(col, v) == CHOOSE i \in 1..Len(col) : col[i] = v /\ \A j \in 1..(i - 1) : col[j] # v

Firsts(col) == {i \in 1..Len(col) : ~IsNull(col[i]) /\ FirstAt(col, col[i]) = i}

ValueCounts(col) ==
    LET fs == Firsts(col)
        before(i, j) == \/ Count(col, col[i]) > Count(col, col[j])
                        \/ (Count(col, col[i]) = Count(col, col[j]) /\ i < j)
        rank(i) == 1 + Cardinality({j \in fs : before(j, i)})
    IN  [k \in 1..Cardinality(fs) |->
            LET i == CHOOSE i \in fs : rank(i) = k
            IN  [Carrier |-> col[i], Count |-> Count(col, col[i])]]

\* The carrier names of InputRows in sorted order (strings have no order
\* of their own here).
CarrierNames == <<"FedEx", "UPS">>

NameRank(v) == CHOOSE i \in 1..Len(CarrierNames) : CarrierNames[i] = v.str

\* Series.mode(): the most frequent non-null values, sorted when they can
\* be compared (all names) and left in order of appearance otherwise.  It
\* is empty for an empty column.
Modes(col) ==
    LET vc  == ValueCounts(col)
        top == Column(SelectSeq(vc, LAMBDA e : e.Count = vc[1].Count), "Carrier")
        rank(i) == 1 + Cardinality({j \in 1..Len(top) : NameRank(top[j]) < NameRank(top[i])})
    IN  IF \A i \in 1..Len(top) : top[i].cls = "str"
        THEN [k \in 1..Len(top) |-> top[CHOOSE i \in 1..Len(top) : rank(i) = k]]
        ELSE top

\* df.sort_values(by='Routed Date Time'): a sorted copy (rows with equal
\* keys keep their order).
SortValues(t) ==
    LET before(i, j) == \/ t[i].RoutedDateTime.min < t[j].RoutedDateTime.min
                        \/ (t[i].RoutedDateTime.min = t[j].RoutedDateTime.min /\ i < j)
        rank(i) == 1 + Cardinality({j \in 1..Len(t) : before(j, i)})
    IN  [k \in 1..Len(t) |-> t[CHOOSE i \in 1..Len(t) : rank(i) = k]]

\* ------------------------------------------------------------------------
\* State
\* ------------------------------------------------------------------------
VARIABLES
    file,      \* the rows of Cleaned_Package_Data_County.csv
    proc,      \* the interpreter whose main thread is running the script
    pc,        \* where that interpreter is in the script
    df,        \* its module-level table
    summary,   \* the three statistics put in the layout
    response,  \* the answer to the last render request
    timer,     \* per process: the Timer started by the main block
    now,       \* seconds since the launch
    opened     \* the calls of webbrowser.open_new so far

vars == <<file, proc, pc, df, summary, response, timer, now, opened>>

launch == <<proc, timer, now, opened>>

Procs == {"script", "reloader_child"}

NoSummary  == [cls |-> "none"]
NoFigure   == [type |-> "none"]
NoResponse == [id |-> "", figure |-> NoFigure]
NoTimer    == [state |-> "none", at |-> 0]

\* The dcc.Graph components of the layout.
GraphIds == {"sankey-graph", "carrier-bar", "histogram", "line-chart", "pie-chart", "heatmap"}

\* The ids that an @app.callback names as its Output.
CallbackOutputs == {"sankey-graph", "line-chart", "pie-chart"}

InitWith(f) ==
    /\ file = f
    /\ proc = "script"
    /\ pc = "read_csv"
    /\ df = <<>>
    /\ summary = NoSummary
    /\ response = NoResponse
    /\ timer = [p \in Procs |-> NoTimer]
    /\ now = 0
    /\ opened = <<>>

Init == \E f \in Files : InitWith(f)

\* ------------------------------------------------------------------------
\* Module level, lines 12-115
\* ------------------------------------------------------------------------
read_csv ==
    /\ pc = "read_csv"
    /\ df' = ReadCsv(file)
    /\ pc' = "to_datetime"
    /\ UNCHANGED <<file, summary, response, launch>>

convert_dates ==
    /\ pc = "to_datetime"
    /\ df' = ConvertColumns(df)
    /\ pc' = "dropna"
    /\ UNCHANGED <<file, summary, response, launch>>

dropna ==
    /\ pc = "dropna"
    /\ df' = DropNa(df)
    /\ pc' = "stages"
    /\ UNCHANGED <<file, summary, response, launch>>

compute_stages ==
    /\ pc = "stages"
    /\ df' = ComputeStages(df)
    /\ pc' = "fillna"
    /\ UNCHANGED <<file, summary, response, launch>>

fillna ==
    /\ pc = "fillna"
    /\ df' = FillNa(df)
    /\ pc' = "layout"
    /\ UNCHANGED <<file, summary, response, launch>>

\* app.layout: the three statistics are computed while the layout is
\* built.  df['Carrier'].mode()[0] raises when the mode is empty, which
\* ends the script; otherwise the callbacks are registered next.
layout ==
    /\ pc = "layout"
    /\ IF Modes(Column(df, "Carrier")) = <<>>
       THEN /\ pc' = "error"
            /\ UNCHANGED summary
       ELSE /\ pc' = "ready"
            /\ summary' = [cls           |-> "stats",
                           TotalPackages |-> Len(df),
                           TopCarrier    |-> Modes(Column(df, "Carrier"))[1],
                           AvgProcessing |-> Mean(Column(df, "TotalProcessingTime"))]
    /\ UNCHANGED <<file, df, response, launch>>

\* ------------------------------------------------------------------------
\* Callbacks, lines 118-163.  A registered callback is invoked for each
\* render request for its Output.
\* ------------------------------------------------------------------------
Registered == pc \in {"ready", "serving"}

\* The means taken over the rows with a non-zero duration only.
SankeyFigureSkippingZeros(t) ==
    LET nz(c) == SelectSeq(Column(t, c), LAMBDA v : v # FZero)
    IN  [type   |-> "sankey",
         source |-> <<0, 1, 1, 2, 2>>,
         target |-> <<1, 2, 3, 3, 4>>,
         value  |-> <<Mean(nz("RoutedToStored")),
                      Mean(nz("StoredToDelivered")),
                      IntToF64(4000), IntToF64(3200), IntToF64(1200)>>,
         label  |-> <<"Arrived", "Sorting", "Storage", "Out for Delivery", "Delivered">>]

SankeyFigure(t) ==
    [type   |-> "sankey",
     source |-> <<0, 1, 1, 2, 2>>,
     target |-> <<1, 2, 3, 3, 4>>,
     value  |-> <<Mean(Column(t, "RoutedToStored")),
                  Mean(Column(t, "StoredToDelivered")),
                  IntToF64(4000), IntToF64(3200), IntToF64(1200)>>,
     label  |-> <<"Arrived", "Sorting", "Storage", "Out for Delivery", "Delivered">>]

update_sankey ==
    /\ Registered
    /\ response' = [id |-> "sankey-graph", figure |-> SankeyFigure(df)]
    /\ UNCHANGED <<file, pc, df, summary, launch>>

\* The line chart sorting the shared table itself (inplace=True).
update_line_chart_inplace ==
    /\ Registered
    /\ df' = SortValues(df)
    /\ response' = [id |-> "line-chart",
                    figure |-> [type |-> "line",
                                x |-> Column(df', "RoutedDateTime"),
                                y |-> Column(df', "TotalProcessingTime")]]
    /\ UNCHANGED <<file, pc, summary, launch>>

update_line_chart ==
    /\ Registered
    /\ LET df_sorted == SortValues(df)
       IN  response' = [id |-> "line-chart",
                        figure |-> [type |-> "line",
                                    x |-> Column(df_sorted, "RoutedDateTime"),
                                    y |-> Column(df_sorted, "TotalProcessingTime")]]
    /\ UNCHANGED <<file, pc, df, summary, launch>>

update_pie_chart ==
    /\ Registered
    /\ LET carrier_counts == ValueCounts(Column(df, "Carrier"))
       IN  response' = [id |-> "pie-chart",
                        figure |-> [type   |-> "pie",
                                    names  |-> Column(carrier_counts, "Carrier"),
                                    values |-> Column(carrier_counts, "Count")]]
    /\ UNCHANGED <<file, pc, df, summary, launch>>

\* A render request for a graph that no callback has as its Output: no
\* function runs and the graph keeps its empty figure.
render_without_callback(id) ==
    /\ Registered
    /\ id \notin CallbackOutputs
    /\ response' = [id |-> id, figure |-> NoFigure]
    /\ UNCHANGED <<file, pc, df, summary, launch>>

\* ------------------------------------------------------------------------
\* The main block, lines 166-171
\* ------------------------------------------------------------------------
Url == "http://127.0.0.1:8050/"

\* Timer(1, open_browser): the delay in seconds.
TimerDelay == 1

\* The last second of a launch that is followed.
MaxClock == 2

\* if __name__ == '__main__': Timer(1, open_browser).start(), then
\* app.run_server(debug=True).  With debug=True the server runs under the
\* reloader: the process started by the user does not serve; it starts a
\* child process that runs the script again from its first line and waits
\* for it, while its own Timer thread stays alive.  The child, finding
\* itself under the reloader, serves.
main_block ==
    /\ pc = "ready"
    /\ timer[proc].state = "none"
    /\ timer' = [timer EXCEPT ![proc] = [state |-> "armed", at |-> now]]
    /\ IF proc = "script"
       THEN /\ proc' = "reloader_child"
            /\ pc' = "read_csv"
            /\ df' = <<>>
            /\ summary' = NoSummary
            /\ response' = NoResponse
       ELSE /\ pc' = "serving"
            /\ UNCHANGED <<proc, df, summary, response>>
    /\ UNCHANGED <<file, now, opened>>

\* One second passes.
tick ==
    /\ now < MaxClock
    /\ now' = now + 1
    /\ UNCHANGED <<file, proc, pc, df, summary, response, timer, opened>>

\* The Timer thread of process p calls open_browser once its delay is over.
open_browser(p) ==
    /\ timer[p].state = "armed"
    /\ now >= timer[p].at + TimerDelay
    /\ opened' = Append(opened, [url |-> Url, by |-> p, at |-> now])
    /\ timer' = [timer EXCEPT ![p].state = "fired"]
    /\ UNCHANGED <<file, proc, pc, df, summary, response, now>>

Next ==
    \/ read_csv
    \/ convert_dates
    \/ dropna
    \/ compute_stages
    \/ fillna
    \/ layout
    \/ update_sankey
    \/ update_line_chart
    \/ update_pie_chart
    \/ \E id \in GraphIds : render_without_callback(id)

Spec == Init /\ [][Next]_vars

\* The script run as the main program.
LaunchFiles == {f \in Files : Len(f) <= 1}

InitLaunch == \E f \in LaunchFiles : InitWith(f)

NextLaunch ==
    \/ read_csv
    \/ convert_dates
    \/ dropna
    \/ compute_stages
    \/ fillna
    \/ layout
    \/ main_block
    \/ tick
    \/ \E p \in Procs : open_browser(p)
    \/ (pc = "serving" /\ update_sankey)
    \/ (pc = "serving" /\ update_line_chart)
    \/ (pc = "serving" /\ update_pie_chart)
    \/ (pc = "serving" /\ \E id \in GraphIds : render_without_callback(id))

SpecLaunch == InitLaunch /\ [][NextLaunch]_vars

\* ------------------------------------------------------------------------
\* Properties
\* ------------------------------------------------------------------------
\* The table is final once fillna has run.
Loaded == pc \in {"layout", "ready", "serving", "error"}

\* The text t of a file cell parses under the fixed format.
Parses(t) == to_datetime(CsvText(t)).cls = "ts"

\* The file row a table row came from.
FileRow(row) == file[row.idx + 1]

Rows == 1..Len(df)

\* The difference of two floats is below 2^-28.
Close(x, y) ==
    LET d == F64Sub(x, y)
    IN  d.cls = "zero" \/ (d.cls = "num" /\ d.e < -28)

\* C1: a file row is in the final table if and only if its routed and its
\* delivered timestamp both parse; the stored timestamp plays no part.  The
\* rows kept are in file order, each once.
C1_RetainedIffRoutedAndDeliveredParse ==
    Loaded =>
        /\ \A i \in 1..Len(file) :
               (\E k \in Rows : df[k].idx = i - 1)
                   <=> (Parses(file[i].Routed) /\ Parses(file[i].Delivered))
        /\ \A k, l \in Rows : k < l => df[k].idx < df[l].idx

\* Of two file rows, the first (routed or delivered unparseable) is gone
\* and the second, whose stored timestamp alone is unparseable, is kept.
C1_Witness ==
    /\ Loaded /\ Len(file) = 2 /\ Len(df) = 1 /\ df[1].idx = 1
    /\ file[2].Stored # <<>> /\ ~Parses(file[2].Stored)
    /\ file[1].Carrier # "" /\ Parses(file[1].Stored)

\* C2: in every row of the final table the total is (delivered - routed)
\* in hours, with or without a stored timestamp: the correctly rounded
\* quotient seconds / 3600, which is the exact whole number for whole
\* hours, and negative exactly when delivered is earlier than routed.
C2_TotalIsDeliveredMinusRouted ==
    Loaded =>
        \A k \in Rows :
            LET mins == df[k].DeliveredDateTime.min - df[k].RoutedDateTime.min
                tot  == df[k].TotalProcessingTime
            IN  /\ tot = F64DivNat(IntToF64(mins * 60), 3600)
                /\ (mins % 60 = 0 => tot = IntToF64(mins \div 60))
                /\ (mins < 0 <=> (tot.cls = "num" /\ tot.s = 1))

\* Routed 14:00, delivered 08:00 the same day, no stored timestamp: -6.0.
C2_Witness ==
    /\ Loaded
    /\ \E k \in Rows :
           /\ FileRow(df[k]).Routed = T1400 /\ FileRow(df[k]).Delivered = T0800
           /\ ~Parses(FileRow(df[k]).Stored)
           /\ df[k].TotalProcessingTime = IntToF64(-6)

\* C3 as stated: in every row with a stored timestamp the total equals the
\* sum of the two intervals.
C3_TotalEqualsSumOfIntervals ==
    Loaded =>
        \A k \in Rows :
            Parses(FileRow(df[k]).Stored) =>
                F64Eq(df[k].TotalProcessingTime,
                      F64Add(df[k].RoutedToStored, df[k].StoredToDelivered))

\* C3 amended: in every row with a stored timestamp the total and the sum
\* of the two intervals differ by less than 2^-28 hours, and they are equal
\* when both intervals are whole multiples of 15 minutes.
C3_SumWithinRounding ==
    Loaded =>
        \A k \in Rows :
            Parses(FileRow(df[k]).Stored) =>
                LET sum == F64Add(df[k].RoutedToStored, df[k].StoredToDelivered)
                    rs  == df[k].StoredDateTime.min - df[k].RoutedDateTime.min
                    sd  == df[k].DeliveredDateTime.min - df[k].StoredDateTime.min
                IN  /\ Close(df[k].TotalProcessingTime, sum)
                    /\ (rs % 15 = 0 /\ sd % 15 = 0
                            => F64Eq(df[k].TotalProcessingTime, sum))

\* Routed 08:00, stored 10:00, delivered 14:00: 2.0, 4.0 and 6.0 hours.
C3_Witness ==
    /\ Loaded
    /\ \E k \in Rows :
           /\ FileRow(df[k]).Routed = T0800 /\ FileRow(df[k]).Stored = T1000
           /\ FileRow(df[k]).Delivered = T1400
           /\ df[k].RoutedToStored = IntToF64(2)
           /\ df[k].StoredToDelivered = IntToF64(4)
           /\ df[k].TotalProcessingTime = IntToF64(6)

\* C4: no row of the final table has a missing value in a duration column,
\* and a row whose stored timestamp is missing has 0 in both intervals.
C4_NoMissingDurations ==
    Loaded =>
        \A k \in Rows :
            /\ \A c \in FloatColumns : ~IsNull(df[k][c])
            /\ (~Parses(FileRow(df[k]).Stored) =>
                    /\ df[k].RoutedToStored = FZero
                    /\ df[k].StoredToDelivered = FZero)

\* A kept row without a stored timestamp, next to one with it.
C4_Witness ==
    /\ Loaded /\ Len(df) = 2
    /\ ~Parses(FileRow(df[1]).Stored) /\ df[1].RoutedToStored = FZero
    /\ Parses(FileRow(df[2]).Stored) /\ df[2].RoutedToStored # FZero

\* C5: with an empty table after filtering the script raises no error.
C5_EmptyDatasetRaisesNoError ==
    (Loaded /\ df = <<>>) => pc # "error"

\* C6: a render request for any of the five charts is answered with a
\* figure built from the table.
C6_FiveChartBuilders ==
    \A id \in {"sankey-graph", "carrier-bar", "histogram", "line-chart", "pie-chart"} :
        response.id = id => response.figure.type # "none"

\* C7: once fillna has run, no step changes the table.
C7_TableNeverChangesAfterLoad == [][Loaded => df' = df]_vars

\* The line chart has been built from a table that is not in routed order:
\* the figure is sorted, the table is not.
C7_Witness ==
    /\ response.id = "line-chart" /\ Len(df) = 2
    /\ df[1].RoutedDateTime.min > df[2].RoutedDateTime.min
    /\ response.figure.x[1].min < response.figure.x[2].min

\* C8: the flow diagram has the five links 0-1, 1-2, 1-3, 2-3, 2-4 over
\* five labels; the first two weights are the means over all rows of the
\* final table of the two intervals, a row without a stored timestamp
\* counting as 0; the other three are 4000, 3200 and 1200.
C8_SankeyLinks ==
    response.id = "sankey-graph" =>
        LET fig == response.figure
            rs(k) == IF Parses(FileRow(df[k]).Stored)
                     THEN Hours(df[k].StoredDateTime, df[k].RoutedDateTime) ELSE FZero
            sd(k) == IF Parses(FileRow(df[k]).Stored)
                     THEN Hours(df[k].DeliveredDateTime, df[k].StoredDateTime) ELSE FZero
        IN  /\ fig.source = <<0, 1, 1, 2, 2>>
            /\ fig.target = <<1, 2, 3, 3, 4>>
            /\ Len(fig.label) = 5 /\ Len(fig.value) = 5
            /\ fig.value[1] = Mean([k \in Rows |-> rs(k)])
            /\ fig.value[2] = Mean([k \in Rows |-> sd(k)])
            /\ fig.value[3] = IntToF64(4000)
            /\ fig.value[4] = IntToF64(3200)
            /\ fig.value[5] = IntToF64(1200)

\* Two rows, one without a stored timestamp: the first weight is half the
\* other row's 2.0 hours.
C8_Witness ==
    /\ response.id = "sankey-graph" /\ Len(df) = 2
    /\ ~Parses(FileRow(df[1]).Stored)
    /\ df[2].RoutedToStored = IntToF64(2)
    /\ response.figure.value[1] = IntToF64(1)

RECURSIVE SumSeq(_)
SumSeq(q) == IF q = <<>> THEN 0 ELSE q[1] + SumSeq(Tail(q))

\* C10: the pie chart's counts add up to the Total Packages of the summary,
\* the number of rows of the final table; the rows with no carrier in the
\* file are counted under the carrier 0.
C10_PieCountsSumToTotalPackages ==
    response.id = "pie-chart" =>
        LET fig == response.figure
            noCarrier == Cardinality({k \in Rows : FileRow(df[k]).Carrier = ""})
        IN  /\ SumSeq(fig.values) = summary.TotalPackages
            /\ SumSeq(fig.values) = Len(df)
            /\ \A j \in 1..Len(fig.names) :
                   fig.names[j] = Int0(0) => fig.values[j] = noCarrier
            /\ (noCarrier > 0 => \E j \in 1..Len(fig.names) : fig.names[j] = Int0(0))

\* A kept row with no carrier next to one with a carrier.
C10_Witness ==
    /\ response.id = "pie-chart" /\ Len(df) = 2
    /\ FileRow(df[1]).Carrier = "" /\ FileRow(df[2]).Carrier # ""
    /\ response.figure.names = <<Int0(0), df[2].Carrier>>

\* C9: the browser is opened exactly once per launch, at the dashboard's
\* address, and not before the Timer's delay is over: never twice, and once
\* when the server is up and no Timer is pending.
C9_BrowserOpenedExactlyOnce ==
    /\ Len(opened) <= 1
    /\ \A i \in 1..Len(opened) :
           /\ opened[i].url = Url
           /\ opened[i].at >= timer[opened[i].by].at + TimerDelay
    /\ (pc = "serving" /\ \A p \in Procs : timer[p].state # "armed")
           => Len(opened) = 1

=============================================================================
